---- MODULE Spec2Model ----
(***************************************************************************)
(* The T20 score predictor:                                                *)
(*   src/src/model/register_model.py        (Register)                     *)
(*   src/scripts/promote_model.py           (Promote)                      *)
(*   src/src/model/model_evaluation.py      (Evaluate)                     *)
(*   src/flask_app/app.py                   (serving process, /predict)    *)
(*   src/src/features/feature_engineering.py (feature engineering stage)   *)
(*   src/src/data/data_ingestion.py         (ingestion stage)              *)
(*   src/tests/test_model.py                (model test)                   *)
(* The registry itself is the hosted MLflow service; its state is the set  *)
(* of versions of the registered model "my_model", the aliases and the     *)
(* "stage" tag of each version and each version's last update timestamp.   *)
(***************************************************************************)
EXTENDS Integers, Sequences, FiniteSets, TLC

\* ------------------------------------------------------------------------
\* Bounds of the model
\* ------------------------------------------------------------------------
\* number of the oldest version present in the registry at the start
\* (chosen so that one-digit and two-digit version strings both occur)
FirstVersion == 8
\* at most this many versions are present in the registry at the start
MaxInitVersions == 3
\* at most this many Register runs
MaxRegister == 1
\* a match of the delivery table has at most this many deliveries
MaxDeliveries == 3
\* the match of the delivery table in which wicket after wicket falls has
\* this many deliveries
MaxLong == 12
\* the delivery table is scaled down, and with it the two sizes the stage
\* compares row counts with: a city is kept with more than CityThreshold
\* deliveries (600 in the code) and the trailing window spans Window
\* deliveries (30 in the code)
CityThreshold == 1
Window == 2
\* the directory of match files holds at most this many files
MaxFiles == 2
\* the first innings of a match file has this many deliveries
MaxBalls == 2
\* the serving process handles at most this many requests
MaxRequests == 3

\* ------------------------------------------------------------------------
\* Strings
\* ------------------------------------------------------------------------
\* the alias names that occur in the registry, each with its characters
AliasNames == {"staging1", "staging2", "production"}

Chars(s) ==
    CASE s = ""           -> <<>>
      [] s = "staging"    -> <<"s","t","a","g","i","n","g">>
      [] s = "staging1"   -> <<"s","t","a","g","i","n","g","1">>
      [] s = "staging2"   -> <<"s","t","a","g","i","n","g","2">>
      [] s = "production" -> <<"p","r","o","d","u","c","t","i","o","n">>

\* str.startswith
startswith(a, prefix) ==
    /\ Len(Chars(a)) >= Len(Chars(prefix))
    /\ SubSeq(Chars(a), 1, Len(Chars(prefix))) = Chars(prefix)

\* the decimal string of a version number, as a sequence of digits
RECURSIVE Str(_)
Str(n) == IF n < 10 THEN <<n>> ELSE Append(Str(n \div 10), n % 10)

\* int(mv.version)
RECURSIVE int(_)
int(s) == IF s = <<>> THEN 0
          ELSE 10 * int(SubSeq(s, 1, Len(s) - 1)) + s[Len(s)]

\* ------------------------------------------------------------------------
\* State
\* ------------------------------------------------------------------------
VARIABLES
    versions,                \* registry: version numbers of "my_model"
    aliases,                 \* registry: version -> set of alias names
    tags,                    \* registry: version -> value of tag "stage" ("" = no tag)
    last_updated_timestamp,  \* registry: version -> timestamp
    to_promote,              \* Promote: version string chosen by the last completed run (<<>> = none)
    warned,                  \* Promote: the last run printed the demotion warning
    delete_raised,           \* Promote: delete_registered_model_alias raised in the last run
    ops,                     \* the last two runs of the scripts, oldest first
    before,                  \* registry markers before the last run of a script
    n_register,              \* number of Register runs so far
    app_state,               \* serving process: "down", "failed" (import raised), "up"
    MODEL_VERSION,           \* serving process: module constant MODEL_VERSION (<<>> = unset)
    model,                   \* serving process: version number of the loaded model (0 = none)
    loads,                   \* serving process: number of load_model calls
    predicted_with,          \* serving process: version used by the last /predict (0 = none)
                             \* and whether a Register or Promote run completed before it
    promoted_at_start,       \* version of the last completed Promote when the process started (0 = none)
    since_start,             \* a Register or Promote run completed since the process started
    CAPSTONE_TEST,           \* environment variable CAPSTONE_TEST (None = unset)
    service_called,          \* a call to the hosted MLflow service was made
    request,                 \* serving process: the request being sent to POST /predict
    response,                \* serving process: the answer to it (status 0 = not answered yet)
    interim_data,            \* data/interim/interim_data.csv: the delivery table
    eligible_cities,         \* eligible_cities.txt as written by the feature engineering stage
    train_df,                \* data/processed/train_final.csv
    test_df,                 \* data/processed/test_final.csv
    t20s,                    \* notebooks/t20s/: the match files, in the order os.listdir gives them
    final_df,                \* ingestion: the match table load_yaml_directory returned (None = not run)
    raw_data,                \* data/raw/data.csv: the delivery table written by the ingestion
    REQUEST_COUNT,           \* serving process: counter app_request_count by (method, endpoint)
    REQUEST_LATENCY,         \* serving process: number of observations of app_request_latency_seconds by endpoint
    model_version            \* tests/test_model.py: cls.model_version (None = setUpClass has not run)

registry == <<versions, aliases, tags, last_updated_timestamp>>
promote_vars == <<to_promote, warned, delete_raised>>
history == <<ops, before, n_register>>
serving == <<app_state, MODEL_VERSION, model, loads, predicted_with, promoted_at_start>>
environment == <<CAPSTONE_TEST, service_called>>
http == <<request, response>>
datasets == <<interim_data, eligible_cities, train_df, test_df>>
ingestion == <<t20s, final_df, raw_data>>
metrics == <<REQUEST_COUNT, REQUEST_LATENCY>>
vars == <<versions, aliases, tags, last_updated_timestamp, to_promote, warned,
          delete_raised, ops, before, n_register, app_state, MODEL_VERSION,
          model, loads, predicted_with, promoted_at_start, since_start,
          CAPSTONE_TEST, service_called, request, response,
          interim_data, eligible_cities, train_df, test_df,
          t20s, final_df, raw_data, REQUEST_COUNT, REQUEST_LATENCY,
          model_version>>

\* Python's None and a value that is present
None == <<>>
Some(x) == <<x>>

\* (variant: only an unset variable is refused, an empty one passes)
token_unset_only(token) == token = None

\* `if not token`: os.getenv gave None or the empty string
not_token(token) == token = None \/ token = Some("")

MODEL_NAME == "my_model"
staging_prefix == "staging"
production_alias == "production"

\* the stage markers of the registry
Markers == [versions |-> versions, aliases |-> aliases, tags |-> tags]

\* ------------------------------------------------------------------------
\* Registry service (MlflowClient calls made by the scripts)
\* ------------------------------------------------------------------------
Max(S) == CHOOSE x \in S : \A y \in S : y <= x

\* client.search_model_versions("name = 'my_model'")
search_model_versions(vs, al, tg, ts) ==
    { [version |-> Str(v), aliases |-> al[v], tags |-> tg[v],
       last_updated_timestamp |-> ts[v]] : v \in vs }

\* client.list_model_version_aliases(name, version)
list_model_version_aliases(al, version) == al[int(version)]

\* (variant: the call returns without removing the alias)
delete_alias_kept(al, alias) == al

\* client.delete_registered_model_alias(name, alias)
delete_registered_model_alias(al, alias) ==
    [v \in DOMAIN al |-> al[v] \ {alias}]

\* (variant: the alias is added to the version and kept where it was)
set_alias_keeping_old(al, alias, version) ==
    [v \in DOMAIN al |-> IF v = int(version) THEN al[v] \cup {alias} ELSE al[v]]

\* (variant: the loop variable mv is passed instead of the candidate; after
\* the loops it is the last version listed)
set_alias_on_loop_variable(al, alias, version) ==
    LET last == CHOOSE x \in DOMAIN al : \A y \in DOMAIN al : y <= x
    IN  [v \in DOMAIN al |-> IF v = last THEN al[v] \cup {alias}
                             ELSE al[v] \ {alias}]

\* client.set_registered_model_alias(name, alias, version): the alias points
\* to exactly that version afterwards
set_registered_model_alias(al, alias, version) ==
    [v \in DOMAIN al |-> IF v = int(version) THEN al[v] \cup {alias}
                         ELSE al[v] \ {alias}]

\* (variant: the highest existing version number is handed out again)
register_version_reused(vs) == IF vs = {} THEN 1 ELSE Max(vs)

\* mlflow.register_model(model_uri, name): the registry creates the next
\* version number, one above the highest it holds
register_version(vs) == IF vs = {} THEN 1 ELSE Max(vs) + 1

\* client.set_model_version_tag(name, version, key="stage", value)
set_model_version_tag(tg, version, value) ==
    [v \in DOMAIN tg |-> IF v = int(version) THEN value ELSE tg[v]]

\* the registry's clock: later than every timestamp it holds
now(vs, ts) == IF vs = {} THEN 1 ELSE Max({ts[v] : v \in vs}) + 1

\* ------------------------------------------------------------------------
\* History bookkeeping
\* ------------------------------------------------------------------------
record(op) ==
    /\ ops' = <<ops[2], op>>
    /\ before' = Markers
    /\ since_start' = (since_start \/ (app_state = "up" /\ op \in {"register", "promote"}))

\* ------------------------------------------------------------------------
\* Register: main() of register_model.py, calling
\* register_model("my_model", info)
\* ------------------------------------------------------------------------
Register ==
    /\ n_register < MaxRegister
    /\ IF not_token(CAPSTONE_TEST)
       THEN \* raise EnvironmentError
            /\ record("register_EnvironmentError")
            /\ UNCHANGED <<registry, n_register, service_called>>
       ELSE /\ LET new == register_version(versions)
                   mv  == [version |-> Str(new)]
                   tg0 == [v \in versions \cup {new} |->
                              IF v = new THEN "" ELSE tags[v]]
               IN  /\ versions' = versions \cup {new}
                   /\ aliases' = [v \in versions \cup {new} |->
                                     IF v = new THEN {} ELSE aliases[v]]
                   /\ tags' = set_model_version_tag(tg0, mv.version, "staging")
                   /\ last_updated_timestamp' =
                         [v \in versions \cup {new} |->
                             IF v = new THEN now(versions, last_updated_timestamp)
                             ELSE last_updated_timestamp[v]]
            /\ n_register' = n_register + 1
            /\ service_called' = TRUE
            /\ record("register")
    /\ UNCHANGED <<promote_vars, serving, CAPSTONE_TEST, http, datasets,
                   ingestion, metrics, model_version>>

\* ------------------------------------------------------------------------
\* Promote: main() of scripts/promote_model.py
\* ------------------------------------------------------------------------
\* (variant: the filter on the staging prefix is lost)
staging_versions_unfiltered(all_versions, al) == all_versions

\* step 1: the versions with an alias that starts with the staging prefix
staging_versions(all_versions, al) ==
    { mv \in all_versions :
        \E a \in list_model_version_aliases(al, mv.version) :
            startswith(a, staging_prefix) }

\* (variant: the most recently updated candidate is chosen)
choose_latest_updated(cands) ==
    (CHOOSE mv \in cands :
        \A o \in cands :
            o.last_updated_timestamp <= mv.last_updated_timestamp).version

\* max(staging_versions, key=lambda mv: int(mv.version)).version
choose_to_promote(cands) ==
    (CHOOSE mv \in cands :
        \A o \in cands : int(o.version) <= int(mv.version)).version

\* step 2: the loop that removes the production alias; fails is the set of
\* versions at which delete_registered_model_alias raises MlflowException
RECURSIVE demote(_, _, _, _)
demote(todo, al, w, fails) ==
    IF todo = {} THEN [aliases |-> al, warned |-> w]
    ELSE LET v == CHOOSE x \in todo : \A y \in todo : x <= y
         IN  IF production_alias \in list_model_version_aliases(al, Str(v))
             THEN IF v \in fails
                  THEN demote(todo \ {v}, al, TRUE, fails)
                  ELSE demote(todo \ {v},
                              delete_registered_model_alias(al, production_alias),
                              w, fails)
             ELSE demote(todo \ {v}, al, w, fails)

\* (variant: the assignment sits inside the try block of the demotion and
\* is skipped when the deletion raises)
assign_inside_try(d, version) ==
    IF d.warned THEN d.aliases
    ELSE set_registered_model_alias(d.aliases, production_alias, version)

\* (variant: the promoted version's staging aliases are consumed)
assign_and_unstage(d, version) ==
    LET al == set_registered_model_alias(d.aliases, production_alias, version)
    IN  [v \in DOMAIN al |->
            IF v = int(version)
            THEN {a \in al[v] : ~startswith(a, staging_prefix)}
            ELSE al[v]]

\* step 3: the production alias is assigned to the candidate, d being the
\* outcome of step 2
assign_production(d, version) ==
    set_registered_model_alias(d.aliases, production_alias, version)

Promote ==
    \E fails \in SUBSET {v \in versions : production_alias \in aliases[v]} :
      LET all_versions == search_model_versions(versions, aliases, tags,
                                                last_updated_timestamp)
          cands == staging_versions(all_versions, aliases)
      IN  /\ IF not_token(CAPSTONE_TEST)
             THEN \* raise EnvironmentError
                  /\ fails = {}
                  /\ record("promote_EnvironmentError")
                  /\ UNCHANGED <<registry, promote_vars, service_called>>
             ELSE IF cands = {}
             THEN \* raise ValueError
                  /\ fails = {}
                  /\ warned' = FALSE
                  /\ delete_raised' = FALSE
                  /\ service_called' = TRUE
                  /\ record("promote_raised")
                  /\ UNCHANGED <<registry, to_promote>>
             ELSE LET chosen == choose_to_promote(cands)
                      d == demote({int(mv.version) : mv \in all_versions},
                                  aliases, FALSE, fails)
                  IN  /\ to_promote' = chosen
                      /\ warned' = d.warned
                      /\ delete_raised' = (fails # {})
                      /\ aliases' = assign_production(d, chosen)
                      /\ service_called' = TRUE
                      /\ record("promote")
                      /\ UNCHANGED <<versions, tags, last_updated_timestamp>>
          /\ UNCHANGED <<n_register, serving, CAPSTONE_TEST, http, datasets,
                         ingestion, metrics, model_version>>

\* a Promote run that stops between step 2 and step 3: the process is
\* killed there, or set_registered_model_alias raises, which no except
\* clause catches. The registry is left as the demotion loop left it.
PromoteStopped ==
    \E fails \in SUBSET {v \in versions : production_alias \in aliases[v]} :
      LET all_versions == search_model_versions(versions, aliases, tags,
                                                last_updated_timestamp)
          cands == staging_versions(all_versions, aliases)
          d == demote({int(mv.version) : mv \in all_versions},
                      aliases, FALSE, fails)
      IN  /\ ~not_token(CAPSTONE_TEST)
          /\ cands # {}
          /\ warned' = d.warned
          /\ delete_raised' = (fails # {})
          /\ aliases' = d.aliases
          /\ service_called' = TRUE
          /\ record("promote_stopped")
          /\ UNCHANGED <<versions, tags, last_updated_timestamp, to_promote,
                         n_register, serving, CAPSTONE_TEST, http, datasets,
                         ingestion, metrics, model_version>>

\* ------------------------------------------------------------------------
\* Model test: tests/test_model.py
\* ------------------------------------------------------------------------
\* get_latest_model_version(model_name, staging_prefix): the entries with a
\* staging-prefixed alias, sorted by last_updated_timestamp, latest first,
\* and the version of the first; <<>> stands for ValueError
get_latest_model_version(all_versions, prefix) ==
    LET staging_entries ==
            { mv \in all_versions :
                \E alias \in mv.aliases : startswith(alias, prefix) }
    IN  IF staging_entries = {} THEN <<>>
        ELSE (CHOOSE mv \in staging_entries :
                 \A o \in staging_entries :
                     o.last_updated_timestamp <= mv.last_updated_timestamp).version

\* setUpClass: the credential is checked and the version to test resolved
setUpClass ==
    /\ model_version = None
    /\ LET v == get_latest_model_version(
                    search_model_versions(versions, aliases, tags,
                                          last_updated_timestamp), "staging")
       IN  IF not_token(CAPSTONE_TEST)
           THEN \* raise EnvironmentError
                /\ record("test_EnvironmentError")
                /\ UNCHANGED <<model_version, service_called>>
           ELSE IF v = <<>>
           THEN \* raise ValueError
                /\ record("test_raised")
                /\ service_called' = TRUE
                /\ UNCHANGED model_version
           ELSE /\ model_version' = Some(v)
                /\ service_called' = TRUE
                /\ record("test_model")
    /\ UNCHANGED <<registry, promote_vars, n_register, serving, CAPSTONE_TEST,
                   http, datasets, ingestion, metrics>>

\* ------------------------------------------------------------------------
\* Serving process: flask_app/app.py
\* ------------------------------------------------------------------------
\* get_model_version_by_stage(model_name, stage); <<>> stands for ValueError
get_model_version_by_stage(all_versions, stage) ==
    LET stage_versions == { mv \in all_versions : mv.tags = stage }
    IN  IF stage_versions = {} THEN <<>>
        ELSE (CHOOSE mv \in stage_versions :
                 \A o \in stage_versions :
                     o.last_updated_timestamp <= mv.last_updated_timestamp).version

\* mlflow.pyfunc.load_model("models:/my_model/<version>")
load_model(version) == int(version)

\* module import: the credential is checked, MODEL_VERSION is resolved and
\* the model loaded, once
StartServing ==
    /\ app_state = "down"
    /\ LET v == get_model_version_by_stage(
                    search_model_versions(versions, aliases, tags,
                                          last_updated_timestamp), "production")
       IN  IF not_token(CAPSTONE_TEST)
           THEN \* raise EnvironmentError
                /\ app_state' = "failed"
                /\ UNCHANGED <<MODEL_VERSION, model, loads, service_called>>
           ELSE IF v = <<>>
           THEN \* raise ValueError
                /\ app_state' = "failed"
                /\ service_called' = TRUE
                /\ UNCHANGED <<MODEL_VERSION, model, loads>>
           ELSE /\ app_state' = "up"
                /\ MODEL_VERSION' = v
                /\ model' = load_model(v)
                /\ loads' = loads + 1
                /\ service_called' = TRUE
    /\ promoted_at_start' = int(to_promote)
    /\ UNCHANGED <<registry, promote_vars, history, predicted_with, since_start,
                   CAPSTONE_TEST, http, datasets, ingestion, metrics, model_version>>

\* the label values of the two metrics: the routes "/" and "/predict" with
\* their methods
Endpoints == {"/", "/predict"}
Labels == {<<"GET", "/">>, <<"POST", "/predict">>}

\* REQUEST_COUNT.labels(method, endpoint).inc()
inc(counter, method, endpoint) ==
    [counter EXCEPT ![<<method, endpoint>>] = @ + 1]

\* REQUEST_LATENCY.labels(endpoint).observe(...): one more observation
observe(histogram, endpoint) ==
    [histogram EXCEPT ![endpoint] = @ + 1]

\* the number of requests the process has counted
requests_counted ==
    REQUEST_COUNT[<<"GET", "/">>] + REQUEST_COUNT[<<"POST", "/predict">>]

\* GET /: home() counts the request, renders the empty form and records
\* the latency
home ==
    /\ app_state = "up"
    /\ requests_counted < MaxRequests
    /\ REQUEST_COUNT' = inc(REQUEST_COUNT, "GET", "/")
    /\ REQUEST_LATENCY' = observe(REQUEST_LATENCY, "/")
    /\ UNCHANGED <<registry, promote_vars, history, serving, since_start,
                   environment, http, datasets, ingestion, model_version>>

\* (variant: every request resolves and loads the production model again)
predict_model_reloading(m, n) ==
    [model |-> load_model(get_model_version_by_stage(
                   search_model_versions(versions, aliases, tags,
                                         last_updated_timestamp), "production")),
     loads |-> n + 1]

\* the model a /predict request calls, and the number of loads after it
predict_model(m, n) == [model |-> m, loads |-> n]

\* a float: a number, nan or inf; overs are held in tenths and run rates in
\* hundredths
num(v) == [k |-> "num", v |-> v]
nan == [k |-> "nan", v |-> 0]
inf == [k |-> "inf", v |-> 0]

\* x < y and x > y for a float x and a number y: both false for nan
lt(x, y) == x.k = "num" /\ x.v < y
gt(x, y) == x.k = "inf" \/ (x.k = "num" /\ x.v > y)

\* round(n / d, 2) in hundredths for n >= 0 and d > 0: the nearest
\* hundredth, a tie going to the even one
round2(n, d) ==
    LET q == (n * 100) \div d
        r == (n * 100) % d
    IN  IF 2 * r < d THEN q
        ELSE IF 2 * r > d THEN q + 1
        ELSE IF q % 2 = 0 THEN q ELSE q + 1

Range(s) == {s[i] : i \in DOMAIN s}

TEAMS == <<"Australia", "India", "Bangladesh", "New Zealand", "South Africa",
           "England", "West Indies", "Pakistan", "Sri Lanka">>

\* the allow-list read from eligible_cities.txt when the module is imported
CITIES == <<"Mumbai", "Delhi">>

\* the five fields the JSON path reads with payload[...], in that order
JSON_FIELDS == <<"current_score", "balls_left", "wickets_left", "crr", "last_five">>

\* the answer to a request; status 0: not answered yet
NoResponse ==
    [path |-> "", status |-> 0, error_message |-> <<>>, result |-> None,
     invoked |-> FALSE, input_df |-> None, exception |-> FALSE,
     propagated |-> FALSE, after_exception |-> FALSE]

\* model.predict(input_df)[0] of the fitted pipeline: its encoder raises on a
\* team or city it was not fitted on; otherwise the value is the one model m
\* predicts for input_df. None stands for the exception.
model_predict(m, input_df) ==
    IF /\ input_df.batting_team \in Range(TEAMS)
       /\ input_df.bowling_team \in Range(TEAMS)
       /\ input_df.city \in Range(CITIES)
    THEN Some([model |-> m, input_df |-> input_df])
    ELSE None

\* (variant: no except clause, the exception leaves the view function)
uncaught(a, e) ==
    [a EXCEPT !.status = 500, !.exception = TRUE, !.propagated = TRUE]

\* the except clauses of the two prediction paths; a is the answer so far
caught(a, e) ==
    IF a.path = "json"
    THEN [a EXCEPT !.status = 500, !.error_message = <<e>>, !.exception = TRUE]
    ELSE [a EXCEPT !.status = 200, !.error_message = <<"Prediction error", e>>,
                   !.result = None, !.exception = TRUE]

\* (variant: a missing field is answered like a success)
missing_field_accepted(a, key) ==
    [a EXCEPT !.status = 200]

\* except KeyError of the JSON path
missing_field(a, key) ==
    [a EXCEPT !.status = 400, !.error_message = <<"Missing field", key>>]

\* the JSON path of predict()
predict_json(payload, m) ==
    LET a == [NoResponse EXCEPT !.path = "json"]
        batting == IF payload.batting_team = None THEN TEAMS[1]
                   ELSE payload.batting_team[1]
        bowling == IF payload.bowling_team # None THEN payload.bowling_team[1]
                   ELSE IF TEAMS[2] # batting THEN TEAMS[2] ELSE TEAMS[1]
        city == IF payload.city = None THEN CITIES[1] ELSE payload.city[1]
        absent == {i \in DOMAIN JSON_FIELDS : payload[JSON_FIELDS[i]] = None}
    IN  IF absent # {}
        THEN missing_field(a, JSON_FIELDS[CHOOSE i \in absent :
                                             \A j \in absent : i <= j])
        ELSE LET input_df == [batting_team |-> batting, bowling_team |-> bowling,
                              city |-> city,
                              current_score |-> payload.current_score[1],
                              balls_left |-> payload.balls_left[1],
                              wickets_left |-> payload.wickets_left[1],
                              crr |-> payload.crr[1],
                              last_five |-> payload.last_five[1]]
                 pred == model_predict(m, input_df)
                 b == [a EXCEPT !.invoked = TRUE, !.input_df = Some(input_df)]
             IN  IF pred = None THEN caught(b, "Found unknown categories")
                 ELSE [b EXCEPT !.status = 200, !.result = pred]

\* (variant: the upper limit of the overs is not checked)
overs_below_range(overs_done) == lt(overs_done, 50)

\* overs_done < 5.0 or overs_done > 19.0
overs_out_of_range(overs_done) == lt(overs_done, 50) \/ gt(overs_done, 190)

\* the validation chain of the form path: the error message, <<>> for none
validate(current_score, overs_done, wickets_out, last_five) ==
    IF current_score = None
    THEN <<"Current score is required and must be a number.">>
    ELSE IF current_score[1] < 0
    THEN <<"Current score must be 0 or a positive integer.">>
    ELSE IF overs_done = None
    THEN <<"Overs done is required and must be a number.">>
    ELSE IF overs_out_of_range(overs_done[1])
    THEN <<"Overs done must be between 5 and 19 (inclusive).">>
    ELSE IF wickets_out = None
    THEN <<"Wickets out is required and must be a whole number.">>
    ELSE IF wickets_out[1] < 0 \/ wickets_out[1] > 9
    THEN <<"Wickets out must be a whole number between 0 and 9.">>
    ELSE IF last_five = None
    THEN <<"Runs in last 5 overs is required and must be a number.">>
    ELSE IF last_five[1] < 0 \/ last_five[1] > current_score[1]
    THEN <<"Runs in last 5 overs must be non-negative and no more than the current score.">>
    ELSE <<>>

\* the features the form path derives from a score, the overs in tenths and
\* the wickets fallen
form_features(current_score, overs_done, wickets_out) ==
    LET balls_bowled == (overs_done * 6) \div 10
    IN  [balls_left |-> Max({120 - balls_bowled, 0}),
         wickets_left |-> Max({10 - wickets_out, 0}),
         crr |-> IF overs_done > 0 THEN round2(current_score * 10, overs_done)
                 ELSE 0]

\* the form path of predict()
predict_form(form, m) ==
    LET a == [NoResponse EXCEPT !.path = "form", !.status = 200]
        error_message == validate(form.current_score, form.overs,
                                  form.wickets, form.last_five)
    IN  IF error_message # <<>>
        THEN [a EXCEPT !.error_message = error_message]
        ELSE IF form.overs[1].k = "nan"
        THEN \* int(overs_done * 6) raises ValueError
             caught(a, "cannot convert float NaN to integer")
        ELSE LET f == form_features(form.current_score[1], form.overs[1].v,
                                    form.wickets[1])
                 input_df == [batting_team |-> form.batting_team[1],
                              bowling_team |-> form.bowling_team[1],
                              city |-> form.city[1],
                              current_score |-> form.current_score[1],
                              balls_left |-> f.balls_left,
                              wickets_left |-> f.wickets_left,
                              crr |-> f.crr,
                              last_five |-> form.last_five[1]]
                 pred == model_predict(m, input_df)
                 b == [a EXCEPT !.invoked = TRUE, !.input_df = Some(input_df)]
             IN  IF pred = None THEN caught(b, "Found unknown categories")
                 ELSE [b EXCEPT !.result = pred]

\* the values the clients send
ScoreValues == {-1, 80}
OversValues == {nan, num(49), num(50), num(100), num(103), num(190), num(250)}
WicketValues == {-1, 4, 9, 10}
LastFiveValues == {-1, 30, 81}
CityValues == {"Mumbai", "Atlantis"}

Opt(S) == {None} \cup {Some(x) : x \in S}

\* the JSON payload of tests/test_flask_app.py
TestPayload ==
    [path |-> "json", batting_team |-> None, bowling_team |-> None,
     city |-> None, current_score |-> Some(80), balls_left |-> Some(60),
     wickets_left |-> Some(6), crr |-> Some(800), last_five |-> Some(30),
     overs |-> None, wickets |-> None]

\* submissions of the form of index.html
FormRequests ==
    [path : {"form"}, batting_team : {Some("India")},
     bowling_team : {Some("Pakistan")},
     city : {Some(c) : c \in CityValues},
     current_score : Opt(ScoreValues), overs : Opt(OversValues),
     wickets : Opt(WicketValues), last_five : Opt(LastFiveValues),
     balls_left : {None}, wickets_left : {None}, crr : {None}]

\* JSON payloads: each key present or not; the two teams come together and
\* so do the human inputs overs and wickets
JsonRequests ==
    { p \in [path : {"json"}, batting_team : Opt({"India"}),
             bowling_team : Opt({"Pakistan"}), city : Opt(CityValues),
             current_score : Opt({80}), balls_left : Opt({60}),
             wickets_left : Opt({6}), crr : Opt({800}), last_five : Opt({30}),
             overs : Opt({num(100)}), wickets : Opt({4})] :
        /\ (p.batting_team = None) = (p.bowling_team = None)
        /\ (p.overs = None) = (p.wickets = None) }

Requests == FormRequests \cup JsonRequests

\* a client posts a request to /predict after the answer to the one before
Receive ==
    /\ app_state = "up"
    /\ response.status # 0
    /\ requests_counted < MaxRequests
    /\ \E r \in Requests :
          /\ request' = r
          /\ response' = [NoResponse EXCEPT !.after_exception =
                             response.exception \/ response.after_exception]
    /\ UNCHANGED <<registry, promote_vars, history, serving, since_start,
                   environment, datasets, ingestion, metrics, model_version>>

\* POST /predict: predict() with the resident model answers the request
\* that was posted. The request is counted on entry; the latency is
\* recorded before the page of the form path is rendered, the three returns
\* of the JSON path come before that.
predict ==
    /\ app_state = "up"
    /\ response.status = 0
    /\ requests_counted < MaxRequests
    /\ REQUEST_COUNT' = inc(REQUEST_COUNT, "POST", "/predict")
    /\ REQUEST_LATENCY' = IF request.path = "json" THEN REQUEST_LATENCY
                          ELSE observe(REQUEST_LATENCY, "/predict")
    /\ LET r == predict_model(model, loads)
           a == IF request.path = "json" THEN predict_json(request, r.model)
                ELSE predict_form(request, r.model)
       IN  /\ model' = r.model
           /\ loads' = r.loads
           /\ response' = [a EXCEPT !.after_exception = response.after_exception]
           /\ predicted_with' = IF a.invoked
                                THEN [version |-> r.model, after |-> since_start]
                                ELSE predicted_with
    /\ UNCHANGED <<registry, promote_vars, history, app_state, MODEL_VERSION,
                   promoted_at_start, since_start, request, environment,
                   datasets, ingestion, model_version>>

\* ------------------------------------------------------------------------
\* Evaluator: src/model/model_evaluation.py logs a run to the tracking
\* service
\* ------------------------------------------------------------------------
Evaluate ==
    /\ IF not_token(CAPSTONE_TEST)
       THEN \* raise EnvironmentError
            /\ record("evaluate_EnvironmentError")
            /\ UNCHANGED service_called
       ELSE /\ service_called' = TRUE
            /\ record("evaluate")
    /\ UNCHANGED <<registry, promote_vars, n_register, serving, CAPSTONE_TEST,
                   http, datasets, ingestion, metrics, model_version>>

\* ------------------------------------------------------------------------
\* Feature engineering stage: src/features/feature_engineering.py
\* ------------------------------------------------------------------------
\* step 5: the label of a delivery, a float with one decimal held in tenths,
\* is written as a string and split at the point
ball_splits(ball) == <<Str(ball \div 10), Str(ball % 10)>>

\* (variant: only the completed overs are counted)
balls_bowled_overs_only(ball) ==
    LET splits == ball_splits(ball)
    IN  int(splits[1]) * 6

\* step 6: over * 6 + ball_no, both read from the parts of the label
balls_bowled(ball) ==
    LET splits == ball_splits(ball)
    IN  int(splits[1]) * 6 + int(splits[2])

\* (variant: the clip is lost)
balls_left_unclipped(bowled) == 120 - bowled

\* step 6: (120 - balls_bowled).clip(lower=0)
balls_left(bowled) == Max({120 - bowled, 0})

\* step 7: 10 - player_dismissed, the cumulative count of dismissals
wickets_left(player_dismissed) == 10 - player_dismissed

\* step 8: (current_score * 6 / balls_bowled).round(2), a float in
\* hundredths; a division by zero gives nan for 0/0 and inf otherwise
crr(current_score, bowled) ==
    IF bowled = 0 THEN (IF current_score = 0 THEN nan ELSE inf)
    ELSE num(round2(current_score * 6, bowled))

\* a missing value of a text column
null == "<null>"
isnull(x) == x = null

RECURSIVE Sum(_)
Sum(s) == IF s = <<>> THEN 0 ELSE s[1] + Sum(Tail(s))

\* pd.read_csv: every row gets its position as index, an empty cell is read
\* as a missing value
read_csv(csv) ==
    [i \in DOMAIN csv |->
        [csv[i] EXCEPT !.city = IF @ = "" THEN null ELSE @,
                       !.venue = IF @ = "" THEN null ELSE @]
        @@ [index |-> i]]

\* df.fillna('', inplace=True)
fillna(df) ==
    [i \in DOMAIN df |->
        [df[i] EXCEPT !.city = IF isnull(@) THEN "" ELSE @,
                      !.venue = IF isnull(@) THEN "" ELSE @]]

load_data(csv) == fillna(read_csv(csv))

\* str.split(): the tokens of a venue name
split(venue) ==
    CASE venue = "Wankhede Stadium" -> <<"Wankhede", "Stadium">>
      [] venue = "Eden Gardens"     -> <<"Eden", "Gardens">>
      [] venue = ""                 -> <<>>

\* step 1: np.where(city.isnull(), first token of the venue, city)
impute_city(df) ==
    [i \in DOMAIN df |->
        [df[i] EXCEPT !.city = IF isnull(df[i].city)
                               THEN split(df[i].venue)[1] ELSE df[i].city]]

\* step 3: data['city'].value_counts() at city c
value_counts(data, c) == Cardinality({i \in DOMAIN data : data[i].city = c})

\* (variant: a city with exactly the threshold is kept too)
eligible_at_least(data) ==
    {c \in {data[i].city : i \in DOMAIN data} :
        value_counts(data, c) >= CityThreshold}

\* step 3: counts[counts > 600].index
eligible(data) ==
    {c \in {data[i].city : i \in DOMAIN data} :
        value_counts(data, c) > CityThreshold}

\* (variant: the running sum goes over the whole table, not per match)
cumsum_ungrouped(data, i, col) ==
    Sum([k \in 1..i |-> data[k][col]])

\* steps 4 and 7: data.groupby('match_id')[col].cumsum() at row i
cumsum(data, i, col) ==
    LET same(r) == r.match_id = data[i].match_id
        grp == SelectSeq(SubSeq(data, 1, i), same)
    IN  Sum([k \in DOMAIN grp |-> grp[k][col]])

\* (variant: every delivery is counted as a dismissal)
dismissal_always(x) == IF x = "0" THEN 1 ELSE 1

\* step 7: lambda x: 0 if x == '0' else 1
dismissal(x) == IF x = "0" THEN 0 ELSE 1

\* step 9: the loop over data.groupby('match_id'), the groups in the order
\* of their match_id: rolling(window).sum() of the runs of each group, nan
\* where the group has fewer rows than the window so far
RECURSIVE last_five_list(_, _)
\* (variant: rolling(window, min_periods=1): a shorter window at the start
\* of a group gives the sum of the rows so far)
last_five_list_partial(data, ids) ==
    IF ids = {} THEN <<>>
    ELSE LET m == CHOOSE x \in ids : \A y \in ids : x <= y
             same(r) == r.match_id = m
             grp == SelectSeq(data, same)
             runs == [k \in DOMAIN grp |-> grp[k].runs]
         IN  [k \in DOMAIN grp |->
                 num(Sum(SubSeq(runs, Max({k - Window + 1, 1}), k)))]
             \o last_five_list(data, ids \ {m})

last_five_list(data, ids) ==
    IF ids = {} THEN <<>>
    ELSE LET m == CHOOSE x \in ids : \A y \in ids : x <= y
             same(r) == r.match_id = m
             grp == SelectSeq(data, same)
             runs == [k \in DOMAIN grp |-> grp[k].runs]
         IN  [k \in DOMAIN grp |->
                 IF k < Window THEN nan
                 ELSE num(Sum(SubSeq(runs, k - Window + 1, k)))]
             \o last_five_list(data, ids \ {m})

\* (variant: the runs are summed over the whole table, not per match)
total_runs_ungrouped(data, m) ==
    Sum([k \in DOMAIN data |-> data[k].runs])

\* step 10: data.groupby('match_id')['runs'].sum() at match m
total_runs(data, m) ==
    LET same(r) == r.match_id = m
        grp == SelectSeq(data, same)
    IN  Sum([k \in DOMAIN grp |-> grp[k].runs])

\* engineer_and_split up to step 11: the allow-list and the feature rows
\* in the order of the table. The field delivery is the index of the row in
\* the table read; it relates a feature row to its delivery and is not a
\* column of the files written.
engineer_and_split(df) ==
    LET imputed == impute_city(df)
        allowed == eligible(imputed)
        keep(r) == r.city \in allowed
        filtered == SelectSeq(imputed, keep)
        data == [i \in DOMAIN filtered |->
                    [filtered[i] EXCEPT !.player_dismissed = dismissal(@)]]
        last_five == last_five_list(data, {data[i].match_id : i \in DOMAIN data})
        features == [i \in DOMAIN data |->
            LET current_score == cumsum(data, i, "runs")
                bowled == balls_bowled(data[i].ball)
            IN  [batting_team |-> data[i].batting_team,
                 bowling_team |-> data[i].bowling_team,
                 city |-> data[i].city,
                 current_score |-> current_score,
                 balls_left |-> balls_left(bowled),
                 wickets_left |-> wickets_left(cumsum(data, i, "player_dismissed")),
                 crr |-> crr(current_score, bowled),
                 last_five |-> last_five[i],
                 total_runs |-> total_runs(data, data[i].match_id),
                 delivery |-> data[i].index]]
        notna(r) == r.crr.k # "nan" /\ r.last_five.k # "nan"
    IN  [eligible |-> allowed, final |-> SelectSeq(features, notna)]

\* the rows of a table at the positions of a set, in the order of the table
rows_at(final, S) ==
    LET F[i \in 0..Len(final)] ==
            IF i = 0 THEN <<>>
            ELSE IF i \in S THEN Append(F[i - 1], final[i]) ELSE F[i - 1]
    IN  F[Len(final)]

\* main(): load_data, engineer_and_split, save_data. The allow-list is
\* written in step 3. train_test_split puts ceil(test_size * n) of the n
\* shuffled rows into the test table, test_size being 0.2, and raises
\* ValueError when no row is left for the training table; which rows go
\* where is fixed by the seed and is any choice here.
FeatureEngineering ==
    /\ eligible_cities = None
    /\ \E e \in {engineer_and_split(load_data(interim_data))} :
          LET n == Len(e.final)
              n_test == (n + 4) \div 5
          IN  /\ eligible_cities' = Some(e.eligible)
              /\ IF n - n_test = 0
                 THEN UNCHANGED <<train_df, test_df>>
                 ELSE \E T \in {S \in SUBSET (1..n) : Cardinality(S) = n_test} :
                         /\ train_df' = Some(rows_at(e.final, (1..n) \ T))
                         /\ test_df' = Some(rows_at(e.final, T))
    /\ UNCHANGED <<registry, promote_vars, history, serving, since_start,
                   environment, http, interim_data, ingestion, metrics,
                   model_version>>

\* ------------------------------------------------------------------------
\* Specification
\* ------------------------------------------------------------------------
InitVersionSets == { FirstVersion .. (FirstVersion + k - 1) : k \in 0..MaxInitVersions }

\* timestamps of the initial versions: updated in the order of their
\* numbers, or in the reverse order
InitTimestamps(vs) ==
    { [v \in vs |-> v - FirstVersion + 1],
      [v \in vs |-> FirstVersion + Cardinality(vs) - v] }

\* the registry holds some versions; each was registered with a stage tag,
\* which is "staging" or, for at most one version, was moved to
\* "production"; an alias names at most one version
InitRegistry ==
    /\ versions \in InitVersionSets
    /\ aliases \in [versions -> SUBSET AliasNames]
    /\ \A a \in AliasNames : Cardinality({v \in versions : a \in aliases[v]}) <= 1
    /\ tags \in [versions -> {"staging", "production"}]
    /\ Cardinality({v \in versions : tags[v] = "production"}) <= 1
    /\ last_updated_timestamp \in InitTimestamps(versions)

\* no script has run, the serving process is down and the test client is
\* about to post its payload
InitProcesses ==
    /\ to_promote = <<>>
    /\ warned = FALSE
    /\ delete_raised = FALSE
    /\ ops = <<"none", "none">>
    /\ before = Markers
    /\ n_register = 0
    /\ app_state = "down"
    /\ MODEL_VERSION = <<>>
    /\ model = 0
    /\ loads = 0
    /\ predicted_with = [version |-> 0, after |-> FALSE]
    /\ promoted_at_start = 0
    /\ since_start = FALSE
    /\ service_called = FALSE
    /\ request = TestPayload
    /\ response = NoResponse
    /\ REQUEST_COUNT = [l \in Labels |-> 0]
    /\ REQUEST_LATENCY = [e \in Endpoints |-> 0]
    /\ model_version = None

\* the ingestion has no input and has written nothing
InitNoIngestion ==
    /\ t20s = <<>>
    /\ final_df = None
    /\ raw_data = None

\* the feature engineering stage has no input and has written nothing
InitNoData ==
    /\ InitNoIngestion
    /\ interim_data = <<>>
    /\ eligible_cities = None
    /\ train_df = None
    /\ test_df = None

Init ==
    /\ InitRegistry
    /\ InitProcesses
    /\ CAPSTONE_TEST = Some("token")
    /\ InitNoData

Next == Register \/ Promote \/ StartServing \/ predict

Spec == Init /\ [][Next]_vars

\* the release scripts on any registry: Register, Promote and a Promote
\* run that stops half-way
NextRelease == Register \/ Promote \/ PromoteStopped

SpecRelease == Init /\ [][NextRelease]_vars

\* the model test and Promote on any registry
NextModelTest == setUpClass \/ Promote

SpecModelTest == Init /\ [][NextModelTest]_vars

\* the serving process on its own: the registry holds one version, tagged
\* for production, and clients post requests of every kind
InitServe ==
    /\ versions = {FirstVersion}
    /\ aliases = [v \in versions |-> {production_alias}]
    /\ tags = [v \in versions |-> "production"]
    /\ last_updated_timestamp = [v \in versions |-> 1]
    /\ InitProcesses
    /\ CAPSTONE_TEST = Some("token")
    /\ InitNoData

NextServe == StartServing \/ home \/ Receive \/ predict

SpecServe == InitServe /\ [][NextServe]_vars

\* the grounds of the matches: city and venue as the table holds them, the
\* city cell of the second being empty
Grounds ==
    { [city |-> "Mumbai", venue |-> "Wankhede Stadium"],
      [city |-> "", venue |-> "Eden Gardens"],
      [city |-> "Kolkata", venue |-> "Eden Gardens"] }

\* the label of the first delivery of a match: 0.1, or 19.5 for a match
\* that reaches the end of the innings
Starts == {1, 195}

\* the label after a label: the next ball of the over, the over having up
\* to nine deliveries
next_ball(ball) == IF ball % 10 < 9 THEN ball + 1 ELSE ball + 2

RECURSIVE label(_, _)
label(start, k) == IF k = 1 THEN start ELSE next_ball(label(start, k - 1))

RunValues == {0, 4}
DismissalMarkers == {"0", "V Kohli"}

\* the rows of one match in the table written by the preprocessing stage
match_rows(id, ground, start, deliveries) ==
    [k \in DOMAIN deliveries |->
        [match_id |-> id, batting_team |-> "India", bowling_team |-> "Pakistan",
         ball |-> label(start, k), runs |-> deliveries[k].runs,
         player_dismissed |-> deliveries[k].player_dismissed,
         city |-> ground.city, venue |-> ground.venue]]

\* the deliveries of a match, each with any runs and any marker
DeliverySeqs ==
    UNION { [1..n -> [runs : RunValues, player_dismissed : DismissalMarkers]] :
              n \in 1..MaxDeliveries }

\* a second match of the table, if any: MaxDeliveries plain deliveries
OtherMatches ==
    {<<>>} \cup
    { match_rows(2, g, 1, [k \in 1..MaxDeliveries |->
                              [runs |-> 1, player_dismissed |-> "0"]]) :
        g \in Grounds }

\* a match of MaxLong deliveries, the first d of them dismissals
LongMatches ==
    { match_rows(1, [city |-> "Mumbai", venue |-> "Wankhede Stadium"], 1,
                 [k \in 1..MaxLong |->
                     [runs |-> 1,
                      player_dismissed |-> IF k <= d THEN "V Kohli" ELSE "0"]]) :
        d \in 0..MaxLong }

\* the delivery tables: the matches follow each other in the order of their
\* match_id, as the ingestion writes them
Tables ==
    { match_rows(1, g, st, d) \o other :
        g \in Grounds, st \in Starts, d \in DeliverySeqs, other \in OtherMatches }
    \cup LongMatches

\* ------------------------------------------------------------------------
\* Ingestion stage: src/data/data_ingestion.py
\* ------------------------------------------------------------------------
\* load_yaml_directory: the files are loaded in turn, file idx getting
\* match_id idx; a file on which yaml.safe_load raises YAMLError, or whose
\* content json_normalize cannot take, is logged and left out
load_yaml_directory(files) ==
    LET F[idx \in 0..Len(files)] ==
            IF idx = 0 THEN <<>>
            ELSE IF files[idx].yaml = "ok"
            THEN Append(F[idx - 1], files[idx] @@ [match_id |-> idx])
            ELSE F[idx - 1]
    IN  F[Len(files)]

\* the records the loop body of extract_delivery_df appends for one row of
\* the match table: reading the deliveries of the first innings raises when
\* there is none, and building the record of a delivery raises when the
\* delivery has no batsman; the records appended before stay in the list.
\* The field file is the index of the match file; it relates a record to
\* its match and is not a column of the table written.
match_records(row, match_counter) ==
    IF ~row.first_innings THEN <<>>
    ELSE LET deliveries == row.deliveries
             bad == {k \in DOMAIN deliveries : ~deliveries[k].batsman}
             n == IF bad = {} THEN Len(deliveries)
                  ELSE (CHOOSE k \in bad : \A o \in bad : k <= o) - 1
         IN  [k \in 1..n |->
                 [match_id |-> match_counter,
                  batting_team |-> "India",
                  ball |-> label(1, k),
                  runs |-> deliveries[k].runs,
                  player_dismissed |-> IF deliveries[k].player_out = None
                                       THEN "0" ELSE deliveries[k].player_out[1],
                  city |-> "Mumbai", venue |-> "Wankhede Stadium",
                  file |-> row.match_id]]

\* step 3 of extract_delivery_df: the loop over the rows, match_counter
\* going up by one with every row, raised or not
RECURSIVE extract_records(_, _)
extract_records(df, match_counter) ==
    IF df = <<>> THEN <<>>
    ELSE match_records(Head(df), match_counter)
         \o extract_records(Tail(df), match_counter + 1)

\* extract_delivery_df after the columns were selected: the men's matches
\* of 20 overs, ball by ball
extract_delivery_df(df0) ==
    LET male(row) == row.gender = "male"
        t20(row) == row.overs = 20
        df == SelectSeq(SelectSeq(df0, male), t20)
    IN  extract_records(df, 1)

\* main(): load_yaml_directory, extract_delivery_df, save_data. With no
\* file loaded the match table has no columns, selecting the columns raises
\* KeyError and nothing is saved.
DataIngestion ==
    /\ final_df = None
    /\ LET df == load_yaml_directory(t20s)
       IN  /\ final_df' = Some(df)
           /\ IF df = <<>>
              THEN UNCHANGED raw_data
              ELSE raw_data' = Some(extract_delivery_df(df))
    /\ UNCHANGED <<registry, promote_vars, history, serving, since_start,
                   environment, http, datasets, t20s, metrics, model_version>>

\* a delivery of a match file: with or without a wicket, or without the
\* batsman
BallDetails ==
    { [batsman |-> TRUE, runs |-> 1, player_out |-> None],
      [batsman |-> TRUE, runs |-> 0, player_out |-> Some("V Kohli")],
      [batsman |-> FALSE, runs |-> 1, player_out |-> None] }

\* the match files: a file that is not YAML, a file whose content is not a
\* mapping, a women's match, a match of 50 overs, a men's T20 without a
\* first innings and the men's T20s with any deliveries
MatchFiles ==
    LET plain == [k \in 1..MaxBalls |->
                     [batsman |-> TRUE, runs |-> 1, player_out |-> None]]
        file(y, g, o, i, d) ==
            [yaml |-> y, gender |-> g, overs |-> o, first_innings |-> i,
             deliveries |-> d]
    IN  { file("YAMLError", "male", 20, TRUE, plain),
          file("not a mapping", "male", 20, TRUE, plain),
          file("ok", "female", 20, TRUE, plain),
          file("ok", "male", 50, TRUE, plain),
          file("ok", "male", 20, FALSE, plain) }
        \cup { file("ok", "male", 20, TRUE, d) :
                  d \in [1..MaxBalls -> BallDetails] }

\* the ingestion on its own, on any directory of match files
InitIngestion ==
    /\ versions = {}
    /\ aliases = <<>>
    /\ tags = <<>>
    /\ last_updated_timestamp = <<>>
    /\ InitProcesses
    /\ CAPSTONE_TEST = Some("token")
    /\ t20s \in UNION { [1..n -> MatchFiles] : n \in 1..MaxFiles }
    /\ final_df = None
    /\ raw_data = None
    /\ interim_data = <<>>
    /\ eligible_cities = None
    /\ train_df = None
    /\ test_df = None

NextIngestion == DataIngestion

SpecIngestion == InitIngestion /\ [][NextIngestion]_vars

\* the feature engineering stage on its own, on any delivery table
InitFeatures ==
    /\ versions = {}
    /\ aliases = <<>>
    /\ tags = <<>>
    /\ last_updated_timestamp = <<>>
    /\ InitProcesses
    /\ CAPSTONE_TEST = Some("token")
    /\ InitNoIngestion
    /\ interim_data \in Tables
    /\ eligible_cities = None
    /\ train_df = None
    /\ test_df = None

NextFeatures == FeatureEngineering

SpecFeatures == InitFeatures /\ [][NextFeatures]_vars

\* the delivery tables with the matches in any order: the table the stage
\* reads from data/interim/interim_data.csv is whatever was put there, and
\* engineer_and_split takes any table
TablesAnyOrder ==
    Tables \cup
    { other \o match_rows(1, g, 1, d) :
        g \in Grounds, d \in DeliverySeqs, other \in OtherMatches }

InitAnyOrder ==
    /\ versions = {}
    /\ aliases = <<>>
    /\ tags = <<>>
    /\ last_updated_timestamp = <<>>
    /\ InitProcesses
    /\ CAPSTONE_TEST = Some("token")
    /\ InitNoIngestion
    /\ interim_data \in TablesAnyOrder
    /\ eligible_cities = None
    /\ train_df = None
    /\ test_df = None

NextAnyOrder == FeatureEngineering

SpecAnyOrder == InitAnyOrder /\ [][NextAnyOrder]_vars

\* the four components that talk to the hosted service, started with the
\* credential variable unset, empty or set; the registry holds a staged
\* version and a production version
InitCredential ==
    /\ versions = {FirstVersion, FirstVersion + 1}
    /\ aliases = [v \in versions |-> IF v = FirstVersion THEN {"staging1"}
                                     ELSE {production_alias}]
    /\ tags = [v \in versions |-> IF v = FirstVersion THEN "staging"
                                  ELSE "production"]
    /\ last_updated_timestamp = [v \in versions |-> v - FirstVersion + 1]
    /\ InitProcesses
    /\ CAPSTONE_TEST \in {None, Some(""), Some("token")}
    /\ InitNoData

NextCredential == Register \/ Promote \/ StartServing \/ Evaluate

SpecCredential == InitCredential /\ [][NextCredential]_vars

\* ------------------------------------------------------------------------
\* Properties
\* ------------------------------------------------------------------------
\* the versions that hold the production alias in a marker snapshot
production_holders(m) ==
    {v \in m.versions : production_alias \in m.aliases[v]}

\* the versions with a staging-prefixed alias in a marker snapshot
staging_candidates(m) ==
    {v \in m.versions : \E a \in m.aliases[v] : startswith(a, staging_prefix)}

\* the last registry operation was a Promote run (completed or raised)
promote_ran == ops[2] \in {"promote", "promote_raised"}

\* C1: in every registry state reached by Register and Promote runs,
\* including Promote runs whose removal of the old production alias fails,
\* at most one version holds the production alias.
C1_AtMostOneProduction == Cardinality(production_holders(Markers)) <= 1

\* C1 witness: a Promote run completed although the removal failed, and the
\* production alias was on another version than the promoted one before.
C1_Witness ==
    /\ ops[2] = "promote"
    /\ delete_raised
    /\ production_holders(before) # {}
    /\ int(to_promote) \notin production_holders(before)

\* C2: a Promote run that completes (the candidate set was not empty) leaves
\* exactly one version holding production: the selected candidate, which had
\* a staging-prefixed alias; an earlier, different holder has lost it.
C2_ExactlyOneAfterPromote ==
    (promote_ran /\ staging_candidates(before) # {}) =>
        /\ ops[2] = "promote"
        /\ production_holders(Markers) = {int(to_promote)}
        /\ int(to_promote) \in staging_candidates(before)
        /\ \A v \in production_holders(before) :
              v # int(to_promote) => production_alias \notin aliases[v]

\* C2 witness: the run started from {v1: staging1, v2: staging2,
\* v3: production}.
C2_Witness ==
    /\ ops[2] = "promote"
    /\ before.versions = FirstVersion .. (FirstVersion + 2)
    /\ before.aliases[FirstVersion] = {"staging1"}
    /\ before.aliases[FirstVersion + 1] = {"staging2"}
    /\ before.aliases[FirstVersion + 2] = {"production"}

\* C3: without a staging-prefixed alias on any version Promote raises and
\* leaves every marker of the registry as it was.
C3_NoCandidateNoChange ==
    (promote_ran /\ staging_candidates(before) = {}) =>
        /\ ops[2] = "promote_raised"
        /\ Markers = before

\* C3 witness: Promote raised in a registry that holds a production alias.
C3_Witness ==
    /\ ops[2] = "promote_raised"
    /\ production_holders(before) # {}

\* C4: when the removal of the production alias raises, Promote only warns:
\* it still completes and the selected candidate holds production.
C4_DemotionFailureContinues ==
    (promote_ran /\ delete_raised) =>
        /\ warned
        /\ ops[2] = "promote"
        /\ production_alias \in aliases[int(to_promote)]

\* C4 witness: the removal raised in a run that had to move the alias.
C4_Witness ==
    /\ promote_ran
    /\ delete_raised
    /\ \E v \in production_holders(before) : v # int(to_promote)

\* C5 (as claimed): Register directly followed by Promote ends with the
\* newly registered version holding production.
C5_RegisterThenPromote ==
    (ops[1] = "register" /\ promote_ran) =>
        /\ ops[2] = "promote"
        /\ production_holders(Markers) = {Max(versions)}

C7_ServesPromoted ==
    (app_state # "down" /\ promoted_at_start # 0) =>
        /\ app_state = "up"
        /\ model = promoted_at_start

\* C8: Promote selects the staging-prefixed version with the highest
\* version number, whatever the update timestamps are.
C8_HighestVersion ==
    ops[2] = "promote" =>
        int(to_promote) = Max(staging_candidates(before))

\* C8 witness: a candidate with a one-digit number and a later update lost
\* against a candidate with a two-digit number.
C8_Witness ==
    /\ ops[2] = "promote"
    /\ int(to_promote) >= 10
    /\ \E v \in staging_candidates(before) :
          /\ v < 10
          /\ last_updated_timestamp[v] > last_updated_timestamp[int(to_promote)]

\* C9: a Promote run directly after a completed Promote run completes too
\* and leaves the markers as the first run left them.
C9_PromoteIdempotent ==
    (ops[1] = "promote" /\ promote_ran) =>
        /\ ops[2] = "promote"
        /\ Markers = before

\* C9 witness: two Promote runs in a row, with more than one candidate.
C9_Witness ==
    /\ ops = <<"promote", "promote">>
    /\ Cardinality(staging_candidates(Markers)) >= 2

\* C10: once the serving process is up its model is never replaced and
\* never loaded again, and every /predict uses it, whatever Register and
\* Promote do meanwhile.
C10_NoHotReload ==
    [][app_state = "up" =>
          /\ app_state' = "up"
          /\ loads = 1 /\ loads' = 1
          /\ model' = model
          /\ MODEL_VERSION' = MODEL_VERSION
          /\ model = int(MODEL_VERSION)
          /\ predicted_with'.version \in {predicted_with.version, model}]_vars

\* C10 witness: a /predict served after a Register or Promote run that
\* completed while the process was up.
C10_Witness ==
    /\ app_state = "up"
    /\ predicted_with.after
    /\ predicted_with.version = model

\* the request was posted by the form and has been answered
form_answered == response.status # 0 /\ response.path = "form"

\* the request was posted as JSON and has been answered
json_answered == response.status # 0 /\ response.path = "json"

\* a form submission the validation has to refuse: a numeric input is
\* missing or negative, the overs are not a number in [5, 19], the wickets
\* are not in [0, 9] or the last-five runs exceed the current score
refused_inputs(r) ==
    \/ r.current_score = None \/ r.overs = None
    \/ r.wickets = None \/ r.last_five = None
    \/ r.current_score[1] < 0 \/ r.last_five[1] < 0
    \/ ~(r.overs[1].k = "num" /\ r.overs[1].v >= 50 /\ r.overs[1].v <= 190)
    \/ ~(r.wickets[1] >= 0 /\ r.wickets[1] <= 9)
    \/ r.last_five[1] > r.current_score[1]

\* C11: a form submission with a missing or negative numeric input, overs
\* outside [5, 19], wickets outside [0, 9] or last-five runs above the
\* current score is answered with an inline error message and no result,
\* and the model is not invoked.
C11_FormValidationRejects ==
    (form_answered /\ refused_inputs(request)) =>
        /\ response.error_message # <<>>
        /\ response.result = None
        /\ ~response.invoked

\* C11 witness: overs = 25 with every other input valid is refused.
C11_Witness ==
    /\ form_answered
    /\ request.overs = Some(num(250))
    /\ request.current_score = Some(80)
    /\ request.wickets = Some(4)
    /\ request.last_five = Some(30)
    /\ response.error_message = <<"Overs done must be between 5 and 19 (inclusive).">>
    /\ ~response.invoked

\* C12 (as claimed): for every match state the form validation accepts,
\* the balls left, wickets left and run rate the form path derives equal
\* those the feature engineering stage computes for the delivery with the
\* same score, the same overs read as an over.ball label and the same
\* number of wickets fallen.
C12_FormEqualsBatch ==
    (form_answered /\ response.input_df # None) =>
        LET d == response.input_df[1]
            bowled == balls_bowled(request.overs[1].v)
        IN  /\ d.balls_left = balls_left(bowled)
            /\ d.wickets_left = wickets_left(request.wickets[1])
            /\ num(d.crr) = crr(d.current_score, bowled)

\* the payload carries the five pre-derived numeric features
has_five(r) == \A i \in DOMAIN JSON_FIELDS : r[JSON_FIELDS[i]] # None

\* the payload carries the six human inputs
has_six(r) ==
    /\ r.batting_team # None /\ r.bowling_team # None /\ r.city # None
    /\ r.current_score # None /\ r.overs # None /\ r.wickets # None
    /\ r.last_five # None

\* C13 (as claimed): a JSON request is answered 200 with a predicted score
\* whenever the model succeeds, be it with the five pre-derived features or
\* with the six human inputs.
C13_JsonEitherInputs ==
    (json_answered /\ (has_five(request) \/ has_six(request))
                   /\ ~response.exception) =>
        /\ response.status = 200
        /\ response.result # None

\* C13 (amended): a JSON request with the five pre-derived features is
\* answered 200 with a predicted score whenever the model succeeds, teams
\* and city given or not; a request that lacks one of the five, as one with
\* the six human inputs does, is answered 400 with an error that names the
\* first missing field, and the model is not invoked.
C13_JsonFivePreDerived ==
    json_answered =>
        /\ (has_five(request) /\ ~response.exception) =>
              /\ response.status = 200
              /\ response.result # None
              /\ response.invoked
        /\ ~has_five(request) =>
              /\ response.status = 400
              /\ Len(response.error_message) = 2
              /\ response.error_message[1] = "Missing field"
              /\ request[response.error_message[2]] = None
              /\ response.result = None
              /\ ~response.invoked

\* C13 witness: the six human inputs in place of the derived features.
C13_Witness ==
    /\ json_answered
    /\ has_six(request)
    /\ request.balls_left = None /\ request.wickets_left = None
    /\ request.crr = None
    /\ response.status = 400
    /\ response.error_message = <<"Missing field", "balls_left">>

C15_CityAllowList ==
    (response.status # 0 /\ request.city # None
                         /\ request.city[1] \notin Range(CITIES)) =>
        /\ ~response.invoked
        /\ ~response.exception
        /\ response.error_message # <<>>

\* C16: with CAPSTONE_TEST unset or empty the serving process, Promote,
\* Register and the evaluator stop with EnvironmentError: no call to the
\* service is made, the registry stays as it was, no model is loaded.
C16_NoCredentialNoCall ==
    (CAPSTONE_TEST = None \/ CAPSTONE_TEST = Some("")) =>
        /\ ~service_called
        /\ Markers = before
        /\ n_register = 0
        /\ to_promote = <<>>
        /\ app_state \in {"down", "failed"}
        /\ model = 0
        /\ \A i \in DOMAIN ops :
              ops[i] \in {"none", "register_EnvironmentError",
                          "promote_EnvironmentError",
                          "evaluate_EnvironmentError"}

\* C16 witness: with an empty CAPSTONE_TEST the serving process has been
\* started and the evaluator and Promote have been run.
C16_Witness ==
    /\ CAPSTONE_TEST = Some("")
    /\ app_state = "failed"
    /\ ops = <<"evaluate_EnvironmentError", "promote_EnvironmentError">>

\* the rows of the train and test tables written by the stage
feature_rows ==
    (IF train_df = None THEN {} ELSE Range(train_df[1]))
    \cup (IF test_df = None THEN {} ELSE Range(test_df[1]))

\* the deliveries of the match of a feature row up to and including the
\* delivery of the row
deliveries_so_far(r) ==
    {j \in 1..r.delivery :
        interim_data[j].match_id = interim_data[r.delivery].match_id}

\* the number of them with a dismissal marker other than "0"
wickets_fallen(r) ==
    Cardinality({j \in deliveries_so_far(r) :
                    interim_data[j].player_dismissed # "0"})

\* a run rate that is a number >= 0 or inf
nonnegative(x) == x.k = "inf" \/ (x.k = "num" /\ x.v >= 0)

\* C17 (as claimed): every row of the train and test tables has
\* 0 <= balls_left <= 120, 0 <= wickets_left <= 10 and crr >= 0, whatever
\* the labels and however many dismissals a match has.
C17_FeatureRanges ==
    \A r \in feature_rows :
        /\ 0 <= r.balls_left /\ r.balls_left <= 120
        /\ 0 <= r.wickets_left /\ r.wickets_left <= 10
        /\ nonnegative(r.crr)

\* C17 (amended): every row has 0 <= balls_left <= 120, wickets_left <= 10
\* and crr >= 0; wickets_left is not floored: it is >= 0 exactly for the
\* rows with at most ten dismissals so far in their match.
C17_FeatureRangesNoFloor ==
    \A r \in feature_rows :
        /\ 0 <= r.balls_left /\ r.balls_left <= 120
        /\ r.wickets_left <= 10
        /\ nonnegative(r.crr)
        /\ (r.wickets_left >= 0) = (wickets_fallen(r) <= 10)

\* C17 witness: a row after the eleventh dismissal of a match.
C17_Witness ==
    \E r \in feature_rows : wickets_fallen(r) > 10 /\ r.wickets_left < 0

\* C18 (as claimed): for every feature row balls_left + balls_bowled = 120,
\* balls_bowled being over * 6 + ball of the label, also for a label whose
\* ball within the over is above 6 in the last over.
C18_BallsSumTo120 ==
    \A r \in feature_rows :
        LET ball == interim_data[r.delivery].ball
        IN  r.balls_left + ((ball \div 10) * 6 + (ball % 10)) = 120

\* C18 (amended): balls_left = max(120 - balls_bowled, 0): the sum is 120
\* for the labels with balls_bowled <= 120; for a label beyond, as 19.7,
\* balls_left is 0 and the sum is balls_bowled.
C18_BallsLeftClipped ==
    \A r \in feature_rows :
        LET ball == interim_data[r.delivery].ball
            bowled == (ball \div 10) * 6 + (ball % 10)
        IN  /\ bowled <= 120 => r.balls_left + bowled = 120
            /\ bowled > 120 => r.balls_left = 0

\* C18 witness: a feature row for the label 19.7.
C18_Witness ==
    \E r \in feature_rows :
        /\ interim_data[r.delivery].ball = 197
        /\ r.balls_left = 0

\* C19: for every feature row wickets_left + wickets_fallen = 10, where
\* wickets_fallen counts the deliveries of the match up to and including
\* the row's whose dismissal marker is not "0", one wicket each.
C19_WicketsSumTo10 ==
    \A r \in feature_rows : r.wickets_left + wickets_fallen(r) = 10

\* C19 witness: a row after two dismissals and a delivery without one.
C19_Witness ==
    \E r \in feature_rows :
        /\ r.wickets_left = 8
        /\ Cardinality(deliveries_so_far(r)) = 3

\* C20 (as claimed): after the stage has run, every delivery whose city
\* cell was empty has the first token of its venue as city, and no empty
\* city is counted for the allow-list or left in a feature row.
C20_CityImputed ==
    eligible_cities # None =>
        /\ "" \notin eligible_cities[1]
        /\ \A r \in feature_rows :
              LET d == interim_data[r.delivery]
              IN  r.city = IF d.city = "" THEN split(d.venue)[1] ELSE d.city

\* the number of rows of the delivery table with city value c
city_rows(c) == Cardinality({j \in DOMAIN interim_data : interim_data[j].city = c})

\* C21: the allow-list the stage writes is exactly the set of city values
\* with strictly more rows in the delivery table than the threshold (a city
\* with exactly that many rows is left out), and every row of the train and
\* test tables has a city of the allow-list.
C21_AllowListAboveThreshold ==
    eligible_cities # None =>
        /\ eligible_cities[1] =
              {c \in {interim_data[j].city : j \in DOMAIN interim_data} :
                  city_rows(c) > CityThreshold}
        /\ \A r \in feature_rows : r.city \in eligible_cities[1]

\* C21 witness: a city with exactly the threshold number of rows is left
\* out while the rows of another city are written.
C21_Witness ==
    /\ eligible_cities # None
    /\ \E c \in {interim_data[j].city : j \in DOMAIN interim_data} :
          city_rows(c) = CityThreshold /\ c \notin eligible_cities[1]
    /\ feature_rows # {}

\* the sum of the runs of the deliveries of a set
RECURSIVE sum_runs(_)
sum_runs(S) ==
    IF S = {} THEN 0
    ELSE LET j == CHOOSE x \in S : TRUE
         IN  interim_data[j].runs + sum_runs(S \ {j})

\* the Window most recent deliveries of the match of a feature row, the
\* delivery of the row included
recent_deliveries(r) ==
    {j \in deliveries_so_far(r) :
        Cardinality({k \in deliveries_so_far(r) : k >= j}) <= Window}

bowled_until(j) ==
    {k \in 1..j : interim_data[k].match_id = interim_data[j].match_id}

\* the deliveries of the table that pass the city filter
kept_deliveries ==
    {j \in DOMAIN interim_data : interim_data[j].city \in eligible_cities[1]}

\* C23 (as claimed): a delivery before which fewer than Window balls of its
\* match were bowled produces a feature row, and when its window is not
\* full its last_five is the sum of the runs of the deliveries so far.
C23_PartialWindowSummed ==
    train_df # None =>
        \A j \in kept_deliveries :
            Cardinality(bowled_until(j)) <= Window =>
                \E r \in feature_rows :
                    /\ r.delivery = j
                    /\ r.last_five = num(sum_runs(bowled_until(j)))

\* C23 (amended): the window of a delivery is null until Window deliveries
\* of its match have been bowled, its own included, and such a delivery
\* produces no feature row; from the Window-th delivery of a match on every
\* delivery produces a row, with the sum over a full window.
C23_PartialWindowDropped ==
    train_df # None =>
        /\ \A j \in kept_deliveries :
              (Cardinality(bowled_until(j)) >= Window)
                  = (\E r \in feature_rows : r.delivery = j)
        /\ \A r \in feature_rows :
              /\ Cardinality(recent_deliveries(r)) = Window
              /\ r.last_five.k = "num"

\* C23 witness: the first delivery of a match has no feature row, a later
\* delivery of the same match has one.
C23_Witness ==
    /\ train_df # None
    /\ \E j \in kept_deliveries :
          /\ Cardinality(bowled_until(j)) = 1
          /\ \A r \in feature_rows : r.delivery # j
          /\ \E r \in feature_rows : j \in deliveries_so_far(r)

\* the match of a feature row and all deliveries of that match
match_of(r) == interim_data[r.delivery].match_id
match_deliveries(r) ==
    {j \in DOMAIN interim_data : interim_data[j].match_id = match_of(r)}

\* C24: for every feature row current_score is the sum of the runs of the
\* deliveries of its match up to and including its own, and total_runs is
\* the sum of the runs of all deliveries of the match: the same for all
\* rows of the match and the current_score of the match's last delivery.
C24_ScoreAndTotal ==
    \A r \in feature_rows :
        /\ r.current_score = sum_runs(deliveries_so_far(r))
        /\ r.total_runs = sum_runs(match_deliveries(r))
        /\ \A o \in feature_rows :
              /\ match_of(o) = match_of(r) => o.total_runs = r.total_runs
              /\ (o.delivery = Max(match_deliveries(r)))
                    => o.current_score = r.total_runs
        /\ \E o \in feature_rows : o.delivery = Max(match_deliveries(r))

\* C24 witness: a row before the end of its match, with runs still to come,
\* in a table that holds a second match with another total.
C24_Witness ==
    \E r, o \in feature_rows :
        /\ r.current_score < r.total_runs
        /\ r.current_score > 0
        /\ match_of(o) # match_of(r)
        /\ o.total_runs # r.total_runs

\* C30: with no negative runs in the delivery table, every row of the train
\* and test tables has 0 <= last_five <= current_score <= total_runs, and so
\* passes the check of the form validation that last_five is not negative
\* and not above the current score.
C30_LastFiveWithinScore ==
    (\A j \in DOMAIN interim_data : interim_data[j].runs >= 0) =>
        \A r \in feature_rows :
            /\ r.last_five.k = "num"
            /\ 0 <= r.last_five.v
            /\ r.last_five.v <= r.current_score
            /\ r.current_score <= r.total_runs
            /\ ~(r.last_five.v < 0 \/ r.last_five.v > r.current_score)

\* C30 witness: a row whose window is shorter than its innings so far and
\* whose match goes on: 0 < last_five < current_score < total_runs.
C30_Witness ==
    \E r \in feature_rows :
        /\ 0 < r.last_five.v
        /\ r.last_five.v < r.current_score
        /\ r.current_score < r.total_runs

\* processing the match file raises: in the loader, or in the loop of the
\* extractor, which only men's matches of 20 overs reach
raises(f) ==
    \/ f.yaml # "ok"
    \/ /\ f.gender = "male" /\ f.overs = 20
       /\ \/ ~f.first_innings
          \/ \E k \in DOMAIN f.deliveries : ~f.deliveries[k].batsman

\* the rows of the delivery table that come from match file i
rows_of_file(i) == {k \in DOMAIN raw_data[1] : raw_data[1][k].file = i}

\* C25 (as claimed): a match file whose processing raises is skipped as a
\* whole, in the loader and in the extractor: it has no row in the match
\* table and none in the delivery table, while every other file has its row
\* in the match table and, being a men's T20, all its deliveries in the
\* delivery table.
C25_FailedMatchSkippedWhole ==
    /\ final_df # None =>
          \A i \in DOMAIN t20s :
              (t20s[i].yaml = "ok") = (\E k \in DOMAIN final_df[1] :
                                          final_df[1][k].match_id = i)
    /\ raw_data # None =>
          \A i \in DOMAIN t20s :
              /\ raises(t20s[i]) => rows_of_file(i) = {}
              /\ (~raises(t20s[i]) /\ t20s[i].gender = "male"
                                   /\ t20s[i].overs = 20) =>
                    Cardinality(rows_of_file(i)) = Len(t20s[i].deliveries)

\* the requests counted for an endpoint, over all methods
counted(endpoint) ==
    LET ls == {l \in Labels : l[2] = endpoint}
        F[S \in SUBSET ls] ==
            IF S = {} THEN 0
            ELSE LET l == CHOOSE x \in S : TRUE
                 IN  REQUEST_COUNT[l] + F[S \ {l}]
    IN  F[ls]

\* C27 (as claimed): every request to GET / or POST /predict, on the form
\* path and on the JSON path with any outcome, is counted once and has its
\* latency recorded once, so the request count of an endpoint equals the
\* number of its latency observations.
C27_CountEqualsLatency ==
    \A endpoint \in Endpoints : counted(endpoint) = REQUEST_LATENCY[endpoint]

\* the last run was a Promote run that stopped between demotion and
\* assignment
promote_stopped == ops[2] = "promote_stopped"

staging_aliases(al, v) == {a \in al[v] : startswith(a, staging_prefix)}

C29_TestedIsPromoted ==
    ops[2] = "test_model" =>
        LET all_versions == search_model_versions(versions, aliases, tags,
                                                  last_updated_timestamp)
        IN  model_version =
                Some(choose_to_promote(staging_versions(all_versions, aliases)))

====
